---- MODULE Spec2Model ----
\* Model of src/public/src/managers/CourseManager.ts: the GormDB submission and
\* review operations (lines 386-534) and the CourseManager assignment-link
\* aggregation (lines 151-372).
\*
\* The database is reached through GORM v1 (github.com/jinzhu/gorm).  The
\* model keeps the GORM behaviour the code depends on:
\*   - a struct used as a condition (Where(struct), inline conditions of
\*     First/Last/Find/Delete) contributes one equality per NON-blank field;
\*   - a struct used as update values (Assign(struct), Updates(struct))
\*     writes only its NON-blank fields ("GORM doesn't update zero value
\*     fields", line 446); a map writes every key;
\*   - Model(v) and the out value of FirstOrCreate add "id = v.ID" to the
\*     condition when v.ID is not blank;
\*   - First orders by primary key ascending, Last descending;
\*   - a DB value that already carries an error keeps it through Count.
EXTENDS Integers, Sequences, FiniteSets, TLC

\* ---------------------------------------------------------------- bounds
MaxSubmissionID == 1    \* largest identifier an incoming submission carries
MaxAssignmentID == 2    \* largest assignment reference of an input
MaxOwnerID == 1         \* largest user / group reference of an input
MaxReviews == 2         \* reviews ever created
MaxLen == 2             \* longest assignment list and longest submission list
MaxEnrollments == 1     \* enrollments of one student

\* ----------------------------------------------------------- value domains
AssignmentIDs == 0..MaxAssignmentID     \* 0 = unset
OwnerIDs == 0..MaxOwnerID               \* 0 = unset
SubmissionIDs == 0..MaxSubmissionID     \* 0 = unset
Scores == {0, 7}
Statuses == {0, 1, 2}   \* pb.Submission_Status: 0 = NONE, 1 = APPROVED, 2 = REVISION
BuildInfos == {0, 1}    \* test-result payload (BuildInfo / ScoreObjects), 0 = empty

\* The assignments, users and groups tables the database is set up with:
\* a course of two assignments taken by a student, and a course of one
\* assignment taken by a group.  Each leaves some reference of the input
\* domains without a row, so that every existence check meets both an
\* existing and a missing row.
Fixtures ==
    { [assignments |-> {1, 2}, users |-> {1}, groups |-> {}],
      [assignments |-> {1},    users |-> {},  groups |-> {1}] }

\* ------------------------------------------------------------ error kinds
ErrNil == "nil"
ErrRecordNotFound == "ErrRecordNotFound"    \* gorm.ErrRecordNotFound
ErrStore == "StoreError"                    \* any other error of the store

VARIABLES
    assignments,    \* assignments table: the IDs of its rows
    users,          \* users table: the IDs of its rows
    groups,         \* groups table: the IDs of its rows
    submissions,    \* submissions table: set of pb.Submission rows
    reviews,        \* reviews table: set of pb.Review rows
    reviewSeq,      \* reviews table: the last identifier the store assigned
    op,             \* the operation that ran last
    arg,            \* its argument as the caller passed it
    ret,            \* its result
    before,         \* the table it worked on, as it was before the call
    frames          \* the CreateSubmission and UpdateSubmissions calls that run
                    \* concurrently, statement by statement: one frame each

vars == <<assignments, users, groups, submissions, reviews, reviewSeq, op, arg, ret, before, frames>>
tables == <<assignments, users, groups>>

\* ------------------------------------------------------ pb.Submission rows
ZeroSubmission ==
    [ID |-> 0, AssignmentID |-> 0, UserID |-> 0, GroupID |-> 0,
     Score |-> 0, Status |-> 0, Released |-> FALSE, BuildInfo |-> 0]

\* the zero value of the field's Go type (gorm Field.IsBlank)
IsBlank(f, v) == IF f \in {"Released", "Ready"} THEN v = FALSE ELSE v = 0

\* Where(struct) / inline struct condition: equality on the non-blank fields
StructCond(q, row) ==
    \A f \in DOMAIN q : IsBlank(f, q[f]) \/ row[f] = q[f]

\* convertInterfaceToMap(struct): the non-blank fields as update attributes,
\* applied to a target value
AssignNonBlank(src, target) ==
    [f \in DOMAIN target |-> IF IsBlank(f, src[f]) THEN target[f] ELSE src[f]]

MaxID(db) == IF db = {} THEN 0 ELSE CHOOSE i \in {r.ID : r \in db} : \A r \in db : r.ID <= i

\* ORDER BY id ASC LIMIT 1 / ORDER BY id DESC LIMIT 1
FirstRow(rows) == CHOOSE r \in rows : \A o \in rows : r.ID <= o.ID
LastRow(rows) == CHOOSE r \in rows : \A o \in rows : r.ID >= o.ID

\* ------------------------------------------- GormDB.CreateSubmission steps

\* ValidateReferences without the "both set" case of line 395
ValidateReferences_UserFirst(s) ==
    IF s.AssignmentID < 1 THEN ErrRecordNotFound
    ELSE IF s.UserID > 0 THEN "User"
    ELSE IF s.GroupID > 0 THEN "Group"
    ELSE ErrRecordNotFound

\* lines 388-403: the assignment and owner reference checks
ValidateReferences(s) ==
    IF s.AssignmentID < 1 THEN ErrRecordNotFound
    ELSE IF s.UserID > 0 /\ s.GroupID > 0 THEN ErrRecordNotFound
    ELSE IF s.UserID > 0 THEN "User"
    ELSE IF s.GroupID > 0 THEN "Group"
    ELSE ErrRecordNotFound

\* lines 398/400 and 406-409: First(&User{ID}) / First(&Group{ID}), then
\* Count on the resulting DB value, which keeps the error of First
OwnerCount(kind, s) ==
    LET table == IF kind = "User" THEN users ELSE groups
        id == IF kind = "User" THEN s.UserID ELSE s.GroupID
        n == Cardinality({x \in table : x = id})
    IN  [Error |-> IF n = 0 THEN ErrRecordNotFound ELSE ErrNil, count |-> n]

\* AssignmentCount without the Where of line 413
AssignmentCount_Unfiltered(s) ==
    [Error |-> ErrNil, count |-> Cardinality(assignments)]

\* lines 412-417: Model(&Assignment{}).Where(&Assignment{ID}).Count
AssignmentCount(s) ==
    [Error |-> ErrNil, count |-> Cardinality({a \in assignments : a = s.AssignmentID})]

\* BothExist that only rules out too many rows
BothExist_AtMost(assignment, group) == assignment + group <= 2

\* BothExist satisfied by either row alone
BothExist_Either(assignment, group) == assignment + group >= 1

\* line 419
BothExist(assignment, group) == assignment + group = 2

\* lines 428-432
MakeQuery(s) ==
    [ZeroSubmission EXCEPT !.AssignmentID = s.AssignmentID,
                           !.UserID = s.UserID, !.GroupID = s.GroupID]

\* LastInto that leaves query as line 428 made it
LastInto_KeepQuery(db, query) ==
    LET rows == {r \in db : StructCond(query, r)}
    IN  [Error |-> IF rows = {} THEN ErrRecordNotFound ELSE ErrNil, query |-> query]

\* line 436: Last(query, query) loads the newest matching row INTO query
LastInto(db, query) ==
    LET rows == {r \in db : StructCond(query, r)}
    IN  IF rows = {} THEN [Error |-> ErrRecordNotFound, query |-> query]
        ELSE [Error |-> ErrNil, query |-> LastRow(rows)]

\* line 443, first statement of FirstOrCreate: First(out, where...), the
\* SELECT of the oldest row that matches query
FirstOrCreateSelect(db, query) ==
    LET rows == {r \in db : StructCond(query, r)}
    IN  IF rows # {} THEN [found |-> TRUE, row |-> FirstRow(rows)]
        ELSE [found |-> FALSE, row |-> ZeroSubmission]

\* line 443, second statement of FirstOrCreate, on what the SELECT found
FirstOrCreateWrite(db, query, s, sel) ==
    IF sel.found
    THEN \* found: Updates(assign attributes) on the row loaded into out;
         \* the attributes are set on out before the UPDATE is built
         LET lab == AssignNonBlank(s, sel.row)
             hit == {r \in db : r.ID = lab.ID /\ StructCond(query, r)}
         IN  [Error |-> ErrNil, lab |-> lab,
              db |-> (db \ hit) \cup {AssignNonBlank(s, r) : r \in hit}]
    ELSE \* not found: initialize out from the condition and the assign
         \* attributes, then INSERT
         LET init == AssignNonBlank(s, AssignNonBlank(query, ZeroSubmission))
             lab == IF init.ID = 0 THEN [init EXCEPT !.ID = MaxID(db) + 1] ELSE init
         IN  IF \E r \in db : r.ID = lab.ID
             THEN [Error |-> ErrStore, lab |-> init, db |-> db]
             ELSE [Error |-> ErrNil, lab |-> lab, db |-> db \cup {lab}]

\* line 443: Where(query).Assign(submission).FirstOrCreate(&labSubmission),
\* with no other statement between its two
FirstOrCreate(db, query, s) ==
    FirstOrCreateWrite(db, query, s, FirstOrCreateSelect(db, query))

\* line 447: Model(submission).Where(query).Updates(map{"Score": 0})
ForceZeroScore(db, query, s) ==
    LET hit == {r \in db : (s.ID # 0 => r.ID = s.ID) /\ StructCond(query, r)}
    IN  [Error |-> ErrNil,
         db |-> (db \ hit) \cup {[r EXCEPT !.Score = 0] : r \in hit}]

\* lines 386-451, the whole call: the table afterwards, the returned error,
\* the caller's submission object afterwards, and the store operations issued
CreateSubmissionResult(db, s) ==
    LET kind == ValidateReferences(s)
        fail(e, tr) == [db |-> db, err |-> e, sub |-> s, trace |-> tr]
    IN  IF kind = ErrRecordNotFound THEN fail(ErrRecordNotFound, <<>>)
        ELSE
        LET group == OwnerCount(kind, s) IN
        IF group.Error # ErrNil THEN fail(group.Error, <<"First", "Count">>)
        ELSE
        LET assignment == AssignmentCount(s) IN
        IF assignment.Error # ErrNil THEN fail(assignment.Error, <<"First", "Count", "Count">>)
        ELSE IF ~BothExist(assignment.count, group.count)
        THEN fail(ErrRecordNotFound, <<"First", "Count", "Count">>)
        ELSE
        LET last == LastInto(db, MakeQuery(s)) IN
        IF last.Error \notin {ErrNil, ErrRecordNotFound}
        THEN fail(last.Error, <<"First", "Count", "Count", "Last">>)
        ELSE
        LET query == last.query
            merge == FirstOrCreate(db, query, s)
        IN  IF s.Score = 0
            THEN LET zero == ForceZeroScore(merge.db, query, s)
                 IN  [db |-> zero.db, err |-> zero.Error,
                      sub |-> [s EXCEPT !.ID = merge.lab.ID],
                      trace |-> <<"First", "Count", "Count", "Last", "FirstOrCreate", "Updates">>]
            ELSE [db |-> merge.db, err |-> merge.Error,
                  sub |-> [s EXCEPT !.ID = merge.lab.ID],
                  trace |-> <<"First", "Count", "Count", "Last", "FirstOrCreate">>]

\* The submissions a caller passes.  A call that fails the reference checks
\* of lines 388-403 or the existence checks of lines 405-421 returns before
\* any other field of the submission is read, so the other fields carry
\* every combination only where these checks pass.
SubmissionContents ==
    [Score : Scores, Status : Statuses, Released : BOOLEAN, BuildInfo : BuildInfos]

UnreadContents ==
    { [Score |-> 0, Status |-> 0, Released |-> FALSE, BuildInfo |-> 0],
      [Score |-> 7, Status |-> 1, Released |-> TRUE, BuildInfo |-> 1] }

PassesChecks(s) ==
    /\ s.AssignmentID \in assignments
    /\ \/ s.UserID \in users /\ s.GroupID = 0
       \/ s.GroupID \in groups /\ s.UserID = 0

SubmissionInputs ==
    UNION { { [ID |-> s.ID, AssignmentID |-> s.AssignmentID,
               UserID |-> s.UserID, GroupID |-> s.GroupID,
               Score |-> c.Score, Status |-> c.Status,
               Released |-> c.Released, BuildInfo |-> c.BuildInfo] :
                c \in IF PassesChecks(s) THEN SubmissionContents ELSE UnreadContents } :
            s \in [ID : SubmissionIDs, AssignmentID : AssignmentIDs,
                    UserID : OwnerIDs, GroupID : OwnerIDs] }

\* no call runs statement by statement
NoFrames == <<>>

\* a request arrives while no other is being served
Idle == op = "none"

\* arg and ret while no call is being served
NoCall == [none |-> TRUE]

CreateSubmission ==
    /\ Idle
    /\ \E s \in SubmissionInputs :
        LET r == CreateSubmissionResult(submissions, s) IN
        /\ submissions' = r.db
        /\ before' = submissions
        /\ op' = "CreateSubmission"
        /\ arg' = s
        /\ ret' = [err |-> r.err, sub |-> r.sub, trace |-> r.trace]
        /\ UNCHANGED <<tables, frames, reviews, reviewSeq>>

\* ------------------------------------------------ GormDB.UpdateSubmissions

\* ApprovalAttrs that flips the released flag instead of setting it
ApprovalAttrs_FlipReleased(query, row) ==
    [row EXCEPT !.Status = IF IsBlank("Status", query.Status) THEN @ ELSE query.Status,
                !.Released = IF query.Released THEN ~@ ELSE @]

\* lines 506-509: Updates(&pb.Submission{Status, Released}) writes the
\* non-blank ones of the two fields
ApprovalAttrs(query, row) ==
    [row EXCEPT !.Status = IF IsBlank("Status", query.Status) THEN @ ELSE query.Status,
                !.Released = IF IsBlank("Released", query.Released) THEN @ ELSE query.Released]

\* AboveThreshold with a strict comparison
AboveThreshold_Strict(score, minimum) == score > minimum

\* line 505
AboveThreshold(score, minimum) == score >= minimum

\* lines 501-510: Model(query).Where(assignment_id = ?).Where(score >= ?)
UpdateSubmissionsResult(db, query) ==
    LET hit == {r \in db : (query.ID # 0 => r.ID = query.ID)
                            /\ r.AssignmentID = query.AssignmentID
                            /\ AboveThreshold(r.Score, query.Score)}
    IN  [err |-> ErrNil, db |-> (db \ hit) \cup {ApprovalAttrs(query, r) : r \in hit}]

\* the queries a caller passes: the code reads ID, AssignmentID, Score,
\* Status and Released only
ApprovalQueries ==
    [ID : SubmissionIDs, AssignmentID : AssignmentIDs, UserID : {0}, GroupID : {0},
     Score : Scores, Status : Statuses, Released : BOOLEAN, BuildInfo : {0}]

UpdateSubmissions ==
    /\ Idle
    /\ \E query \in ApprovalQueries :
        LET r == UpdateSubmissionsResult(submissions, query) IN
        /\ submissions' = r.db
        /\ before' = submissions
        /\ op' = "UpdateSubmissions"
        /\ arg' = query
        /\ ret' = [err |-> r.err]
        /\ UNCHANGED <<tables, frames, reviews, reviewSeq>>

\* ------------------------------------------------------- pb.Review rows

ZeroReview ==
    [ID |-> 0, SubmissionID |-> 0, ReviewerID |-> 0,
     Feedback |-> 0, Review |-> 0, Ready |-> FALSE, Score |-> 0]

ReviewedSubmissions == {1, 2}   \* identifiers of the submissions under review
Reviewers == {1, 2}             \* identifiers of the reviewing users

\* feedback, review content, ready flag and score: all blank, or all set
ReviewContents ==
    { [Feedback |-> 0, Review |-> 0, Ready |-> FALSE, Score |-> 0],
      [Feedback |-> 1, Review |-> 1, Ready |-> TRUE, Score |-> 1] }

WithContent(r, c) ==
    [r EXCEPT !.Feedback = c.Feedback, !.Review = c.Review, !.Ready = c.Ready, !.Score = c.Score]

\* the reviews a caller creates; the store assigns the identifier
ReviewInputs ==
    { WithContent([ZeroReview EXCEPT !.SubmissionID = s, !.ReviewerID = u], c) :
        s \in ReviewedSubmissions, u \in Reviewers, c \in ReviewContents }

\* the filters a caller deletes by: any subset of the fields set
ReviewFilters ==
    { WithContent([ZeroReview EXCEPT !.ID = i, !.SubmissionID = s, !.ReviewerID = u], c) :
        i \in 0..MaxReviews, s \in {0} \cup ReviewedSubmissions,
        u \in {0} \cup Reviewers, c \in ReviewContents }

\* lines 513-515: Create(query) inserts the row; a blank ID is assigned from
\* the table's sequence, which never hands out an identifier twice
CreateReviewResult(db, seq, review) ==
    LET row == IF review.ID = 0 THEN [review EXCEPT !.ID = seq + 1] ELSE review
    IN  IF \E r \in db : r.ID = row.ID
        THEN [err |-> ErrStore, db |-> db, seq |-> seq]
        ELSE [err |-> ErrNil, db |-> db \cup {row},
              seq |-> IF row.ID > seq THEN row.ID ELSE seq]

CreateReview ==
    /\ Idle
    /\ \E review \in ReviewInputs :
        LET r == CreateReviewResult(reviews, reviewSeq, review) IN
        /\ reviewSeq < MaxReviews
        /\ reviews' = r.db
        /\ reviewSeq' = r.seq
        /\ before' = reviews
        /\ op' = "CreateReview"
        /\ arg' = review
        /\ ret' = [err |-> r.err]
        /\ UNCHANGED <<tables, frames, submissions>>

\* DeleteReview that removes one matching row only
DeleteReviewResult_First(db, query) ==
    LET hit == {r \in db : StructCond(query, r)}
    IN  [err |-> ErrNil, db |-> IF hit = {} THEN db ELSE db \ {FirstRow(hit)}]

\* lines 532-534: Delete(&pb.Review{}, &query) removes every row that
\* matches the non-blank fields of query
DeleteReviewResult(db, query) ==
    [err |-> ErrNil, db |-> {r \in db : ~StructCond(query, r)}]

DeleteReview ==
    /\ Idle
    /\ \E query \in ReviewFilters :
        LET r == DeleteReviewResult(reviews, query) IN
        /\ reviews' = r.db
        /\ before' = reviews
        /\ op' = "DeleteReview"
        /\ arg' = query
        /\ ret' = [err |-> r.err]
        /\ UNCHANGED <<tables, frames, submissions, reviewSeq>>

\* lines 518-529: Model(query).Where(&pb.Review{ID, SubmissionID, ReviewerID})
\* .Update(&pb.Review{Feedback, Review, Ready, Score}).  The condition holds
\* the non-blank ones of the three fields, the update the non-blank ones of
\* the four; with none of the four set no statement is issued
UpdateReviewResult(db, query) ==
    LET where == [ZeroReview EXCEPT !.ID = query.ID, !.SubmissionID = query.SubmissionID,
                                    !.ReviewerID = query.ReviewerID]
        attrs == WithContent(ZeroReview, query)
        hit == {r \in db : StructCond(where, r)}
    IN  [err |-> ErrNil,
         db |-> (db \ hit) \cup {AssignNonBlank(attrs, r) : r \in hit}]

UpdateReview ==
    /\ Idle
    /\ \E query \in ReviewFilters :
        LET r == UpdateReviewResult(reviews, query) IN
        /\ reviews' = r.db
        /\ before' = reviews
        /\ op' = "UpdateReview"
        /\ arg' = query
        /\ ret' = [err |-> r.err]
        /\ UNCHANGED <<tables, frames, submissions, reviewSeq>>

\* ------------------------------------------------------------ CourseManager
\* The manager keeps no state of its own; every call reads the course
\* provider.  What the provider answers is chosen when the call is made, and
\* the calls a method issues are recorded in the order it issues them.

Courses == {1, 2}               \* course identifiers
Names == {"Ann", "Bob"}         \* display names
LinkAssignments == {1, 2}       \* assignment identifiers of a course

\* sequences over S of length at most n
RECURSIVE SeqsUpTo(_, _)
SeqsUpTo(S, n) ==
    IF n = 0 THEN {<<>>}
    ELSE LET shorter == SeqsUpTo(S, n - 1)
         IN  shorter \cup {Append(q, x) : q \in shorter, x \in S}

\* Assignment[] as passed in or answered by getAssignments
AssignmentLists == SeqsUpTo(LinkAssignments, MaxLen)

\* ISubmission[] as answered by getAllLabInfos / getAllGroupLabInfos: each
\* submission has its own identifier and the assignment it is for, which may
\* be one that is not on the list
LabInfoLists ==
    { [i \in DOMAIN q |-> [id |-> i, assignmentid |-> q[i]]] :
        q \in SeqsUpTo(LinkAssignments \cup {3}, MaxLen) }

NoSubmission == [undefined |-> TRUE]    \* find() without a match
Undefined == [present |-> FALSE, list |-> <<>>]    \* an optional list left out
Given(list) == [present |-> TRUE, list |-> list]   \* an optional list passed
NoLink == [null |-> TRUE]               \* the null a method returns

\* Find that matches the submission's own identifier
Find_ByID(subs, a) ==
    LET hits == {i \in DOMAIN subs : subs[i].id = a}
    IN  IF hits = {} THEN NoSubmission
        ELSE subs[CHOOSE i \in hits : \A j \in hits : i <= j]

\* lines 344 / 368: submissions.find(sub => sub.assignmentid === a.getId())
Find(subs, a) ==
    LET hits == {i \in DOMAIN subs : subs[i].assignmentid = a}
    IN  IF hits = {} THEN NoSubmission
        ELSE subs[CHOOSE i \in hits : \A j \in hits : i <= j]

\* NonEmpty that also holds of the empty list
NonEmpty_Always(list) == Len(list) >= 0

\* lines 339 / 363
NonEmpty(list) == Len(list) > 0

\* lines 332-348 and 355-372: fillLinks / fillLinksGroup for the owner (a
\* user or a group) and the course of the link.  given is the optional
\* assignment list; answerA and answerS are what the provider answers to
\* getAssignments and to the batch fetch named fetch.  Yields the triples
\* pushed onto the link and the provider calls issued.
FillLinks(owner, courseID, given, fetch, answerA, answerS) ==
    LET list == IF given.present THEN given.list ELSE answerA
        callsA == IF given.present THEN <<>> ELSE << <<"getAssignments", courseID>> >>
    IN  IF NonEmpty(list)
        THEN [assignments |->
                [i \in DOMAIN list |->
                    [assignment |-> list[i], latest |-> Find(answerS, list[i]),
                     authorName |-> owner.name]],
              calls |-> Append(callsA, <<fetch, courseID, owner.id>>),
              fetched |-> answerS, list |-> list]
        ELSE [assignments |-> <<>>, calls |-> callsA, fetched |-> <<>>, list |-> list]

\* the link a method hands back
MakeLink(enrol, courseID, filled) ==
    [link |-> enrol, course |-> courseID, assignments |-> filled.assignments]

StudentArgs ==
    [student : [id : {1}, name : Names, status : {1}], course : Courses,
     assignments : AssignmentLists]

\* lines 151-167
getStudentCourseForTeacher ==
    /\ Idle
    /\ \E a \in StudentArgs, answerS \in LabInfoLists :
        LET enrol == [userid |-> a.student.id, courseid |-> a.course, status |-> a.student.status]
            filled == FillLinks(a.student, a.course, Given(a.assignments), "getAllLabInfos", <<>>, answerS)
        IN  /\ op' = "getStudentCourseForTeacher"
            /\ arg' = a
            /\ ret' = [link |-> MakeLink(enrol, a.course, filled), calls |-> filled.calls,
                       fetched |-> filled.fetched, list |-> filled.list]
            /\ UNCHANGED <<tables, frames, submissions, reviews, reviewSeq, before>>

\* what getCoursesFor answers: enrollments, each with or without its course
EnrollmentLists ==
    SeqsUpTo([courseid : Courses, hasCourse : BOOLEAN], MaxEnrollments)

\* what getAllLabInfos answers to getStudentCourses: at most one submission
LatestLists ==
    { [i \in DOMAIN q |-> [id |-> i, assignmentid |-> q[i]]] :
        q \in SeqsUpTo(LinkAssignments \cup {3}, 1) }

\* lines 174-191: one link per enrollment that has its course, each filled
\* from what the provider answers for it
getStudentCourses ==
    /\ Idle
    /\ \E student \in [id : {1}, name : Names], enrols \in EnrollmentLists,
          answerA \in [1..MaxEnrollments -> AssignmentLists],
          answerS \in [1..MaxEnrollments -> LatestLists] :
        LET kept == SelectSeq(enrols, LAMBDA e : e.hasCourse)
            filled == [i \in DOMAIN kept |->
                        FillLinks(student, kept[i].courseid, Undefined, "getAllLabInfos",
                                  answerA[i], answerS[i])]
        IN  /\ op' = "getStudentCourses"
            /\ arg' = [student |-> student]
            /\ ret' = [links |-> [i \in DOMAIN kept |->
                                    MakeLink(kept[i], kept[i].courseid, filled[i])],
                       calls |-> [i \in DOMAIN kept |-> filled[i].calls],
                       list |-> [i \in DOMAIN kept |-> filled[i].list]]
            /\ UNCHANGED <<tables, frames, submissions, reviews, reviewSeq, before>>

GroupArgs ==
    [group : [id : {1, 2}, courseid : Courses, name : Names], course : Courses,
     assignments : {Undefined} \cup {Given(l) : l \in AssignmentLists}]

\* SameCourse that compares the group's own identifier
SameCourse_GroupID(group, courseID) == group.id = courseID

\* lines 241 / 260
SameCourse(group, courseID) == group.courseid = courseID

\* lines 239-255 and 257-274: both methods, told apart by whether the
\* assignment list is passed
GroupCourseResult(a, answerA, answerS) ==
    IF SameCourse(a.group, a.course)
    THEN LET enrol == [groupid |-> a.group.id, courseid |-> a.course]
             filled == FillLinks(a.group, a.course, a.assignments, "getAllGroupLabInfos",
                                 answerA, answerS)
         IN  [link |-> MakeLink(enrol, a.course, filled), calls |-> filled.calls,
              fetched |-> filled.fetched, list |-> filled.list]
    ELSE [link |-> NoLink, calls |-> <<>>, fetched |-> <<>>, list |-> <<>>]

\* lines 239-255
getGroupCourse ==
    /\ Idle
    /\ \E a \in GroupArgs, answerA \in AssignmentLists, answerS \in LabInfoLists :
        /\ a.assignments = Undefined
        /\ op' = "getGroupCourse"
        /\ arg' = a
        /\ ret' = GroupCourseResult(a, answerA, answerS)
        /\ UNCHANGED <<tables, frames, submissions, reviews, reviewSeq, before>>

\* lines 257-274
getGroupCourseForTeacher ==
    /\ Idle
    /\ \E a \in GroupArgs, answerS \in LabInfoLists :
        /\ a.assignments # Undefined
        /\ op' = "getGroupCourseForTeacher"
        /\ arg' = a
        /\ ret' = GroupCourseResult(a, <<>>, answerS)
        /\ UNCHANGED <<tables, frames, submissions, reviews, reviewSeq, before>>

\* the call has returned; the caller is done with its result
Return ==
    /\ ~Idle
    /\ op' = "none"
    /\ arg' = NoCall
    /\ ret' = NoCall
    /\ before' = {}
    /\ UNCHANGED <<tables, frames, submissions, reviews, reviewSeq>>

\* ------------------------------------------------------------------------
\* Properties of CreateSubmission and UpdateSubmissions, stated on the state
\* in which the call has returned (op, arg, ret, before describe the call).

Range(seq) == {seq[i] : i \in DOMAIN seq}

\* the stored rows of the (assignment, user, group) triple of s
RowsOf(db, s) ==
    {r \in db : r.AssignmentID = s.AssignmentID /\ r.UserID = s.UserID /\ r.GroupID = s.GroupID}

Malformed(s) ==
    \/ s.AssignmentID = 0
    \/ s.UserID > 0 /\ s.GroupID > 0
    \/ s.UserID = 0 /\ s.GroupID = 0

OwnerExists(s) ==
    \/ s.UserID > 0 /\ s.UserID \in users
    \/ s.GroupID > 0 /\ s.GroupID \in groups

Upserted == op = "CreateSubmission"
Succeeded == ret.err = ErrNil

\* C1 (as stated): a submission with assignment reference 0, or with user and
\* group references both set or both unset, fails with InvalidReference, an
\* error kind distinct from NotFound, and the stored rows are unchanged.
C1_InvalidReferenceKind ==
    (Upserted /\ Malformed(arg)) =>
        /\ ret.err = "InvalidReference"
        /\ ret.err # ErrRecordNotFound
        /\ submissions = before

\* C1 (amended): such a submission fails with the record-not-found error, the
\* same error the call returns for a missing assignment or owner, before any
\* store operation is issued, and the stored rows are unchanged.
C1_MalformedFailsNoWrite ==
    (Upserted /\ Malformed(arg)) =>
        /\ ret.err = ErrRecordNotFound
        /\ ret.trace = <<>>
        /\ submissions = before

C1_Witness ==
    /\ Upserted
    /\ arg.AssignmentID > 0 /\ arg.UserID > 0 /\ arg.GroupID > 0
    /\ arg.AssignmentID \in assignments
    /\ arg.Score = 7
    /\ before # {}

\* C2: a well-formed submission whose assignment or owner has no row fails
\* with NotFound and no submission row is created or modified; the merge is
\* reached only when the owner and the assignment each have their row.
C2_MissingReferenceNotFound ==
    (Upserted /\ ~Malformed(arg)) =>
        /\ (arg.AssignmentID \notin assignments \/ ~OwnerExists(arg)) =>
                (ret.err = ErrRecordNotFound /\ submissions = before)
        /\ "FirstOrCreate" \in Range(ret.trace) =>
                (arg.AssignmentID \in assignments /\ OwnerExists(arg))

C2_Witness ==
    /\ Upserted /\ ~Malformed(arg)
    /\ arg.AssignmentID \notin assignments /\ OwnerExists(arg)
    /\ arg.Score = 7
    /\ before # {}

\* C3: sequential upserts of one (assignment, owner) pair, starting with no
\* row for the pair, leave exactly one row for it, and repeating a call with
\* identical input leaves the table as the first call left it.
C3_SequentialIdempotence ==
    (Upserted /\ Succeeded /\ Cardinality(RowsOf(before, arg)) <= 1) =>
        /\ Cardinality(RowsOf(submissions, arg)) = 1
        /\ RowsOf(before, arg) = {} =>
                CreateSubmissionResult(submissions, arg).db = submissions

\* C4: after a successful upsert onto an existing row, the row's score,
\* status, released flag and test-result payload equal the incoming values.
C4_MergeOverwrites ==
    (Upserted /\ Succeeded /\ RowsOf(before, arg) # {} /\ RowsOf(submissions, arg) # {}) =>
        LET row == LastRow(RowsOf(submissions, arg))
        IN  /\ row.Score = arg.Score
            /\ row.Status = arg.Status
            /\ row.Released = arg.Released
            /\ row.BuildInfo = arg.BuildInfo

\* C5: whenever an upsert with incoming score 0 succeeds, the stored score of
\* the merged or created row is 0 afterwards.
C5_ZeroScoreStored ==
    (Upserted /\ Succeeded /\ arg.Score = 0 /\ RowsOf(submissions, arg) # {}) =>
        LastRow(RowsOf(submissions, arg)).Score = 0

\* the row of the table that has the identifier of r
SameID(db, r) == {x \in db : x.ID = r.ID}

Approved == op = "UpdateSubmissions" /\ arg.ID = 0

\* C6 (as stated): approveByThreshold(A, m, s, r) sets status = s and
\* released = r on every row of assignment A with score >= m, for any s and
\* r, and changes nothing else.
C6_ApproveSetsBoth ==
    Approved =>
        /\ {x.ID : x \in submissions} = {x.ID : x \in before}
        /\ \A row \in before :
                SameID(submissions, row) =
                    IF row.AssignmentID = arg.AssignmentID /\ row.Score >= arg.Score
                    THEN {[row EXCEPT !.Status = arg.Status, !.Released = arg.Released]}
                    ELSE {row}

\* C6 (amended): on every row of assignment A with score >= m it sets
\* status = s when s is not NONE and released = TRUE when r is TRUE; a status
\* of NONE leaves the stored status, and r = FALSE the stored released flag,
\* as they were.  Rows below the threshold, rows of other assignments, and
\* the score and test-result payload of every row are unchanged.
C6_ApproveSetsNonBlank ==
    Approved =>
        /\ {x.ID : x \in submissions} = {x.ID : x \in before}
        /\ \A row \in before :
                SameID(submissions, row) =
                    IF row.AssignmentID = arg.AssignmentID /\ row.Score >= arg.Score
                    THEN {[row EXCEPT
                            !.Status = IF arg.Status = 0 THEN @ ELSE arg.Status,
                            !.Released = @ \/ arg.Released]}
                    ELSE {row}

C6_Witness ==
    /\ Approved
    /\ arg.Status = 1 /\ arg.Released /\ arg.Score = 7
    /\ \E row \in before :
            /\ row.AssignmentID = arg.AssignmentID /\ row.Score = 7
            /\ row.Status = 2 /\ ~row.Released /\ row.BuildInfo = 1
            /\ row \notin submissions
    /\ \E row \in before :
            /\ row.AssignmentID # arg.AssignmentID /\ row.Score = 7 /\ row.Status # 1
            /\ row \in submissions

\* C14: after every successful upsert the identifier of the caller's
\* submission equals the identifier of the stored row that was created or
\* merged into, the newest row of the (assignment, owner) triple, whatever
\* identifier the submission carried before the call.
C14_IncomingIDSet ==
    (Upserted /\ Succeeded /\ RowsOf(submissions, arg) # {}) =>
        ret.sub.ID = LastRow(RowsOf(submissions, arg)).ID

\* C15: in every state reached from the empty table by upserts and
\* approvals, every stored submission has the reference of an existing
\* assignment and exactly one of its user and group references set.
C15_OwnershipInvariant ==
    \A r \in submissions :
        /\ r.AssignmentID \in assignments
        /\ (r.UserID # 0) # (r.GroupID # 0)

C15_Witness ==
    /\ op = "UpdateSubmissions"
    /\ Cardinality(submissions) = 2
    /\ submissions # before
    /\ \E r \in submissions : r.ID = 2 /\ r.Status = 2 /\ r.Released

Init ==
    /\ \E f \in Fixtures :
        /\ assignments = f.assignments
        /\ users = f.users
        /\ groups = f.groups
    /\ submissions = {}
    /\ reviews = {}
    /\ reviewSeq = 0
    /\ op = "none"
    /\ arg = NoCall
    /\ ret = NoCall
    /\ before = {}
    /\ frames = NoFrames

Next == CreateSubmission \/ UpdateSubmissions \/ Return

Spec == Init /\ [][Next]_vars

\* ------------------------------------------------------------------------
\* The review ledger on its own: the reviews table starts empty.

\* C10: deleteReview with a filter naming submission S removes every stored
\* review of S, so that finding all reviews of S afterwards yields none, and
\* leaves every review of every other submission unchanged.
C10_DeleteBySubmission ==
    (op = "DeleteReview" /\ arg.SubmissionID # 0) =>
        /\ reviews \subseteq before
        /\ \A r \in before : r.SubmissionID # arg.SubmissionID => r \in reviews
        /\ arg = [ZeroReview EXCEPT !.SubmissionID = arg.SubmissionID] =>
                {r \in reviews : StructCond([ZeroReview EXCEPT !.SubmissionID = arg.SubmissionID], r)} = {}

C10_Witness ==
    /\ op = "DeleteReview"
    /\ arg = [ZeroReview EXCEPT !.SubmissionID = 1]
    /\ Cardinality({r \in before : r.SubmissionID = 1}) = 2
    /\ reviews = {}

\* the stored reviews that have the identifier, the submission reference and
\* the reviewer reference of q
SameReview(db, q) ==
    {r \in db : r.ID = q.ID /\ r.SubmissionID = q.SubmissionID /\ r.ReviewerID = q.ReviewerID}

\* C12: updateReview changes no stored review and reports no error when no
\* stored review has the identifier, submission reference and reviewer
\* reference of the incoming review; no call changes the submission or
\* reviewer reference of a stored review, nor any field of a review that
\* does not match.
C12_UpdateMatchesAllThree ==
    op = "UpdateReview" =>
        /\ ret.err = ErrNil
        /\ SameReview(before, arg) = {} => reviews = before
        /\ \A r \in before :
            /\ \E x \in reviews : x.ID = r.ID /\ x.SubmissionID = r.SubmissionID
                                    /\ x.ReviewerID = r.ReviewerID
            /\ r \notin SameReview(before, arg) => r \in reviews

\* C13: after updateReview on a review that matches a stored row, the row's
\* feedback, review content, ready flag and score equal the incoming ones,
\* blank incoming values included.
C13_UpdateOverwritesContent ==
    (op = "UpdateReview" /\ SameReview(before, arg) # {}) =>
        \A r \in SameReview(reviews, arg) :
            /\ r.Feedback = arg.Feedback
            /\ r.Review = arg.Review
            /\ r.Ready = arg.Ready
            /\ r.Score = arg.Score

ReviewInit ==
    /\ assignments = {} /\ users = {} /\ groups = {}
    /\ submissions = {}
    /\ reviews = {}
    /\ reviewSeq = 0
    /\ op = "none"
    /\ arg = NoCall
    /\ ret = NoCall
    /\ before = {}
    /\ frames = NoFrames

ReviewNext == CreateReview \/ UpdateReview \/ DeleteReview \/ Return

ReviewSpec == ReviewInit /\ [][ReviewNext]_vars

\* ------------------------------------------------------------------------
\* The assignment-link aggregator on its own.

\* the provider calls that fetch submissions in a batch
BatchFetches(calls) ==
    {i \in DOMAIN calls : calls[i][1] \in {"getAllLabInfos", "getAllGroupLabInfos"}}

\* C7: getStudentCourseForTeacher with a non-empty assignment list returns a
\* link whose assignments have the length and order of the list; entry i
\* holds assignment i, the student's display name, and a fetched submission
\* of that assignment, or no submission exactly when none was fetched for it.
C7_StudentLinkPairsInOrder ==
    (op = "getStudentCourseForTeacher" /\ Len(arg.assignments) > 0) =>
        /\ ret.link # NoLink
        /\ Len(ret.link.assignments) = Len(arg.assignments)
        /\ \A i \in DOMAIN arg.assignments :
            LET entry == ret.link.assignments[i]
                forIt == {s \in Range(ret.fetched) : s.assignmentid = arg.assignments[i]}
            IN  /\ entry.assignment = arg.assignments[i]
                /\ entry.authorName = arg.student.name
                /\ (entry.latest = NoSubmission) <=> (forIt = {})
                /\ entry.latest # NoSubmission => entry.latest \in forIt

C7_Witness ==
    /\ op = "getStudentCourseForTeacher"
    /\ arg.assignments = <<1, 2>>
    /\ ret.fetched = << [id |-> 1, assignmentid |-> 1] >>
    /\ ret.link.assignments[1].latest = [id |-> 1, assignmentid |-> 1]
    /\ ret.link.assignments[2].latest = NoSubmission

\* C8: when the assignment list is empty, supplied so or fetched so, the
\* student and group methods return a link with no assignments and never
\* issue the batch fetch of submissions.
C8_EmptyListNoFetch ==
    /\ (op \in {"getStudentCourseForTeacher", "getGroupCourse", "getGroupCourseForTeacher"}
            /\ ret.link # NoLink /\ ret.list = <<>>) =>
        (ret.link.assignments = <<>> /\ BatchFetches(ret.calls) = {})
    /\ op = "getStudentCourses" =>
        \A i \in DOMAIN ret.links :
            ret.list[i] = <<>> =>
                (ret.links[i].assignments = <<>> /\ BatchFetches(ret.calls[i]) = {})

C8_Witness ==
    /\ op = "getGroupCourse"
    /\ ret.link # NoLink
    /\ ret.list = <<>>
    /\ ret.calls = << <<"getAssignments", arg.course>> >>

\* C9: getGroupCourse and getGroupCourseForTeacher return null without any
\* provider call when the group's course differs from the course, and a link
\* when they are the same.
C9_GroupCourseMismatch ==
    op \in {"getGroupCourse", "getGroupCourseForTeacher"} =>
        /\ arg.group.courseid # arg.course => (ret.link = NoLink /\ ret.calls = <<>>)
        /\ arg.group.courseid = arg.course =>
                (ret.link # NoLink /\ ret.link.link.groupid = arg.group.id
                    /\ ret.link.course = arg.course)

C9_Witness ==
    /\ op = "getGroupCourseForTeacher"
    /\ arg.group.courseid # arg.course
    /\ arg.group.id = arg.course
    /\ Len(arg.assignments.list) > 0
    /\ ret.link = NoLink

LinkInit == ReviewInit

LinkNext ==
    \/ getStudentCourseForTeacher
    \/ getStudentCourses
    \/ getGroupCourse
    \/ getGroupCourseForTeacher
    \/ Return

LinkSpec == LinkInit /\ [][LinkNext]_vars

\* ------------------------------------------------------------------------
\* Reads and writes on a table that already holds rows.  Line 434: "there
\* can be multiple submissions for the same student/group and lab in the
\* database", so the table is set up with up to MaxHistory rows, some of
\* them of the same (assignment, owner) pair, and one call is made on it.

MaxHistory == 2     \* rows the table is set up with

\* the fields of a row the table is set up with
SeedContents ==
    { [Score |-> 0, Status |-> 0, Released |-> FALSE, BuildInfo |-> 0],
      [Score |-> 7, Status |-> 1, Released |-> TRUE, BuildInfo |-> 1],
      [Score |-> 7, Status |-> 2, Released |-> FALSE, BuildInfo |-> 0] }

\* the (assignment, owner) pairs of a fixture
Pairs(f) ==
    { [AssignmentID |-> a, UserID |-> u, GroupID |-> 0] : a \in f.assignments, u \in f.users }
    \cup { [AssignmentID |-> a, UserID |-> 0, GroupID |-> g] : a \in f.assignments, g \in f.groups }

\* the tables of k rows with identifiers 1..k, for every k up to MaxHistory
SeededTables(f) ==
    UNION { { { [ID |-> i, AssignmentID |-> pick[i][1].AssignmentID,
                 UserID |-> pick[i][1].UserID, GroupID |-> pick[i][1].GroupID,
                 Score |-> pick[i][2].Score, Status |-> pick[i][2].Status,
                 Released |-> pick[i][2].Released, BuildInfo |-> pick[i][2].BuildInfo] :
                    i \in 1..k } :
                pick \in [1..k -> Pairs(f) \X SeedContents] } :
            k \in 0..MaxHistory }

\* ---------------------------------- GormDB.GetSubmission, GetLastSubmissions

\* GetSubmission that takes the oldest matching row
GetSubmission_First(db, query) ==
    LET rows == {r \in db : StructCond(query, r)}
    IN  IF rows = {} THEN [Error |-> ErrRecordNotFound, submission |-> ZeroSubmission]
        ELSE [Error |-> ErrNil, submission |-> FirstRow(rows)]

\* lines 454-460: Where(query).Last(&submission); the preloaded reviews are
\* not part of the row
GetSubmission(db, query) ==
    LET rows == {r \in db : StructCond(query, r)}
    IN  IF rows = {} THEN [Error |-> ErrRecordNotFound, submission |-> ZeroSubmission]
        ELSE [Error |-> ErrNil, submission |-> LastRow(rows)]

\* the result of GetLastSubmissions when it returns nil, err
NilSubmissions == <<>>

\* lines 470-482: the loop over course.Assignments from position i on;
\* fault is the position whose lookup the store fails (0 = none)
RECURSIVE CollectLatest(_, _, _, _, _, _)
CollectLatest(db, list, query, fault, i, latestSubs) ==
    IF i > Len(list) THEN [subs |-> latestSubs, err |-> ErrNil, lookups |-> i - 1]
    ELSE LET q == [query EXCEPT !.AssignmentID = list[i]]
             temp == IF fault = i THEN [Error |-> ErrStore, submission |-> ZeroSubmission]
                     ELSE GetSubmission(db, q)
         IN  IF temp.Error = ErrRecordNotFound
             THEN CollectLatest(db, list, query, fault, i + 1, latestSubs)
             ELSE IF temp.Error # ErrNil
             THEN [subs |-> NilSubmissions, err |-> temp.Error, lookups |-> i]
             ELSE CollectLatest(db, list, query, fault, i + 1, Append(latestSubs, temp.submission))

\* what First(&course, courseID) with Preload("Assignments") loads
NoCourse == [found |-> FALSE, Assignments |-> <<>>]

\* lines 464-483
GetLastSubmissionsResult(db, course, query, fault) ==
    IF ~course.found THEN [subs |-> NilSubmissions, err |-> ErrRecordNotFound, lookups |-> 0]
    ELSE CollectLatest(db, course.Assignments, query, fault, 1, <<>>)

\* the assignments of a course, in the order they are loaded: assignments of
\* the table, none of them twice
CourseLists ==
    { q \in SeqsUpTo(assignments, MaxAssignmentID) : \A i, j \in DOMAIN q : q[i] = q[j] => i = j }

\* the owner filters a caller passes
OwnerFilters ==
    { [ZeroSubmission EXCEPT !.UserID = u, !.GroupID = g] : u \in OwnerIDs, g \in OwnerIDs }

GetLastSubmissions ==
    /\ Idle
    /\ \E course \in {NoCourse} \cup {[found |-> TRUE, Assignments |-> q] : q \in CourseLists},
          query \in OwnerFilters, fault \in 0..MaxAssignmentID :
        LET r == GetLastSubmissionsResult(submissions, course, query, fault) IN
        /\ op' = "GetLastSubmissions"
        /\ arg' = [course |-> course, query |-> query, fault |-> fault]
        /\ ret' = r
        /\ before' = submissions
        /\ UNCHANGED <<tables, frames, submissions, reviews, reviewSeq>>

\* the stored rows of assignment a that match the owner filter
Matching(db, filter, a) ==
    {r \in db : r.AssignmentID = a
                /\ (filter.UserID # 0 => r.UserID = filter.UserID)
                /\ (filter.GroupID # 0 => r.GroupID = filter.GroupID)}

\* the position of assignment a in the list
PositionIn(list, a) == CHOOSE i \in DOMAIN list : list[i] = a

C18_AtMostOneRowModified ==
    (Upserted /\ Succeeded) =>
        LET old == RowsOf(before, arg)
        IN  /\ \A r \in before : (old = {} \/ r # LastRow(old)) => r \in submissions
            /\ Cardinality(submissions \ before) <= 1
            /\ old # {} => {x.ID : x \in submissions} = {x.ID : x \in before}
            /\ old = {} => submissions \ before \subseteq RowsOf(submissions, arg)

C18_Witness ==
    /\ Upserted /\ Succeeded
    /\ arg.ID = 0 /\ arg.Score = 0
    /\ Cardinality(RowsOf(before, arg)) = 2
    /\ \E r \in before : r.ID = 1 /\ r.Score = 7 /\ r \in submissions
    /\ \E r \in before : r.ID = 2 /\ r.Score = 7 /\ r \notin submissions
    /\ \E r \in submissions : r.ID = 2 /\ r.Score = 0

HistoryInit ==
    /\ \E f \in Fixtures :
        /\ assignments = f.assignments
        /\ users = f.users
        /\ groups = f.groups
        /\ submissions \in SeededTables(f)
    /\ reviews = {}
    /\ reviewSeq = 0
    /\ op = "none"
    /\ arg = NoCall
    /\ ret = NoCall
    /\ before = {}
    /\ frames = NoFrames

HistoryNext == CreateSubmission \/ GetLastSubmissions

HistorySpec == HistoryInit /\ [][HistoryNext]_vars

\* ------------------------------------------------------------------------
\* CreateSubmission statement by statement.  Two callers run it at the same
\* time on one database; each statement the code sends to the store is one
\* step, and the store may fail any of them.  FirstOrCreate (line 443) is two
\* statements: GORM runs its SELECT and then, outside any transaction that
\* holds both, the INSERT or the UPDATE.

Procs == {1, 2}             \* the two callers

\* what each caller passes: reference 1 has a row, reference 2 has none
StepInputs ==
    { [ZeroSubmission EXCEPT !.ID = i, !.AssignmentID = a, !.UserID = u,
                             !.GroupID = g, !.Score = sc] :
        i \in {0, 1}, a \in {0, 1, 2}, u \in {0, 1, 2}, g \in {0, 2}, sc \in Scores }

\* the frame of a caller that has not called yet
IdleFrame ==
    [pc |-> "idle", s |-> ZeroSubmission, kind |-> "", m |-> ErrNil, group |-> 0,
     assignment |-> 0, query |-> ZeroSubmission,
     sel |-> [found |-> FALSE, row |-> ZeroSubmission],
     labSubmission |-> ZeroSubmission, err |-> ErrNil, issued |-> <<>>]

\* the statement the frame has sent, with the error the store answered
Issue(f, name, e) == Append(f.issued, [op |-> name, err |-> e])

\* the frame returns e (lines 389, 396, 402, 408, 416, 420, 437, 450)
Returns(f, e) == [f EXCEPT !.pc = "done", !.err = e]

\* what the store answers to a statement: its result, or a failure
Answer(fault, e) == IF fault THEN ErrStore ELSE e

\* lines 386-403: the reference checks and First(&User{ID}) / First(&Group{ID})
Call(p) ==
    /\ frames[p].pc = "idle"
    /\ \E s \in StepInputs, fault \in BOOLEAN :
        LET kind == ValidateReferences(s)
            f == [frames[p] EXCEPT !.s = s]
        IN  IF kind = ErrRecordNotFound
            THEN /\ ~fault
                 /\ frames' = [frames EXCEPT ![p] = Returns(f, ErrRecordNotFound)]
            ELSE LET m == Answer(fault, OwnerCount(kind, s).Error)
                 IN  frames' = [frames EXCEPT ![p] =
                        [f EXCEPT !.pc = "Count", !.kind = kind, !.m = m,
                                  !.issued = Issue(f, "First", m)]]
    /\ UNCHANGED <<tables, submissions, reviews, reviewSeq, op, arg, ret, before>>

\* lines 406-409: m.Count(&group); the DB value keeps the error of First
Count(p) ==
    /\ frames[p].pc = "Count"
    /\ \E fault \in BOOLEAN :
        LET f == frames[p]
            e == IF f.m # ErrNil THEN f.m ELSE Answer(fault, ErrNil)
            g == [f EXCEPT !.group = IF fault THEN 0 ELSE OwnerCount(f.kind, f.s).count,
                           !.issued = Issue(f, "Count", e)]
        IN  /\ fault => f.m = ErrNil
            /\ frames' = [frames EXCEPT ![p] =
                    IF e # ErrNil THEN Returns(g, e)
                    ELSE [g EXCEPT !.pc = "CountAssignment"]]
    /\ UNCHANGED <<tables, submissions, reviews, reviewSeq, op, arg, ret, before>>

\* lines 412-432: the assignment count, the test of line 419, and query
CountAssignment(p) ==
    /\ frames[p].pc = "CountAssignment"
    /\ \E fault \in BOOLEAN :
        LET f == frames[p]
            e == Answer(fault, AssignmentCount(f.s).Error)
            g == [f EXCEPT !.assignment = IF fault THEN 0 ELSE AssignmentCount(f.s).count,
                           !.issued = Issue(f, "CountAssignment", e)]
        IN  frames' = [frames EXCEPT ![p] =
                IF e # ErrNil THEN Returns(g, e)
                ELSE IF ~BothExist(g.assignment, g.group) THEN Returns(g, ErrRecordNotFound)
                ELSE [g EXCEPT !.pc = "Last", !.query = MakeQuery(f.s)]]
    /\ UNCHANGED <<tables, submissions, reviews, reviewSeq, op, arg, ret, before>>

\* lines 436-438
Last(p) ==
    /\ frames[p].pc = "Last"
    /\ \E fault \in BOOLEAN :
        LET f == frames[p]
            last == LastInto(submissions, f.query)
            e == Answer(fault, last.Error)
            g == [f EXCEPT !.issued = Issue(f, "Last", e)]
        IN  frames' = [frames EXCEPT ![p] =
                IF e \notin {ErrNil, ErrRecordNotFound} THEN Returns(g, e)
                ELSE [g EXCEPT !.pc = "FirstOrCreate", !.query = last.query]]
    /\ UNCHANGED <<tables, submissions, reviews, reviewSeq, op, arg, ret, before>>

\* lines 445-450 once line 443 has answered e: the forced write comes next
\* when the score is 0, whatever e is
AfterMerge(f, e) ==
    IF f.s.Score = 0 THEN [f EXCEPT !.pc = "Updates", !.err = e] ELSE Returns(f, e)

\* line 443, the SELECT of FirstOrCreate; a failure of it is the error of
\* FirstOrCreate and no second statement follows
FirstOrCreateFirst(p) ==
    /\ frames[p].pc = "FirstOrCreate"
    /\ \E fault \in BOOLEAN :
        LET f == frames[p]
            e == Answer(fault, ErrNil)
            g == [f EXCEPT !.issued = Issue(f, "FirstOrCreate", e)]
        IN  frames' = [frames EXCEPT ![p] =
                IF e # ErrNil THEN AfterMerge(g, e)
                ELSE [g EXCEPT !.pc = "Write",
                               !.sel = FirstOrCreateSelect(submissions, f.query)]]
    /\ UNCHANGED <<tables, submissions, reviews, reviewSeq, op, arg, ret, before>>

\* line 443, the INSERT or UPDATE of FirstOrCreate
FirstOrCreateSecond(p) ==
    /\ frames[p].pc = "Write"
    /\ \E fault \in BOOLEAN :
        LET f == frames[p]
            w == FirstOrCreateWrite(submissions, f.query, f.s, f.sel)
            e == Answer(fault, w.Error)
            g == [f EXCEPT !.issued = Issue(f, IF f.sel.found THEN "Update" ELSE "Create", e),
                           !.labSubmission = IF e = ErrNil THEN w.lab
                                             ELSE IF f.sel.found THEN AssignNonBlank(f.s, f.sel.row)
                                             ELSE AssignNonBlank(f.s, AssignNonBlank(f.query, ZeroSubmission))]
        IN  /\ frames' = [frames EXCEPT ![p] = AfterMerge(g, e)]
            /\ submissions' = IF fault THEN submissions ELSE w.db
    /\ UNCHANGED <<tables, reviews, reviewSeq, op, arg, ret, before>>

\* lines 445-450: the forced write, whose error replaces the one of line 443
Updates(p) ==
    /\ frames[p].pc = "Updates"
    /\ \E fault \in BOOLEAN :
        LET f == frames[p]
            z == ForceZeroScore(submissions, f.query, f.s)
            e == Answer(fault, z.Error)
        IN  /\ frames' = [frames EXCEPT ![p] =
                    Returns([f EXCEPT !.issued = Issue(f, "Updates", e)], e)]
            /\ submissions' = IF fault THEN submissions ELSE z.db
    /\ UNCHANGED <<tables, reviews, reviewSeq, op, arg, ret, before>>

\* both callers have returned
BothDone == \A p \in Procs : frames[p].pc = "done"

\* the positions of the statements of these names among those the frame sent
Sent(f, names) == {i \in DOMAIN f.issued : f.issued[i].op \in names}

\* C16: when two concurrent upserts of one (assignment, owner) pair, started
\* on a table with no row for the pair, have both returned, the table holds
\* at most one row for the pair.
C16_NoDuplicateRow ==
    (BothDone /\ MakeQuery(frames[1].s) = MakeQuery(frames[2].s)) =>
        Cardinality(RowsOf(submissions, frames[1].s)) <= 1

\* the statements of the merge (line 443) and the writes among them
MergeStatements == {"FirstOrCreate", "Create", "Update"}
WriteStatements == {"Create", "Update", "Updates"}

\* C17: when a statement of an upsert fails with a store error (the owner
\* count, the assignment count, the find-last, the merge), the call sends no
\* later statement and returns that error; a failed merge is returned, and
\* the forced zero-score write not sent, also when the incoming score is 0.
C17_StoreErrorAborts ==
    \A p \in Procs :
        LET f == frames[p]
        IN  \A i \in Sent(f, {"Count", "CountAssignment", "Last"} \cup MergeStatements) :
                f.issued[i].err = ErrStore =>
                    /\ i = Len(f.issued)
                    /\ f.pc = "done"
                    /\ f.err = ErrStore

\* C20: within one upsert the merge is sent only after the owner check and
\* the assignment check have both answered without error and found their
\* row; the forced zero-score write is sent only after the merge has
\* answered, and nothing of the merge follows it; no write is sent by a call
\* whose references are malformed or whose checks have not passed.
C20_ChecksThenMergeThenZero ==
    \A p \in Procs :
        LET f == frames[p]
        IN  /\ \A i \in Sent(f, MergeStatements \cup WriteStatements) :
                /\ ValidateReferences(f.s) # ErrRecordNotFound
                /\ \E j \in 1..(i - 1) : f.issued[j] = [op |-> "Count", err |-> ErrNil]
                /\ \E j \in 1..(i - 1) : f.issued[j] = [op |-> "CountAssignment", err |-> ErrNil]
                /\ f.group = 1 /\ f.assignment = 1
            /\ \A i \in Sent(f, {"Updates"}) :
                /\ i = Len(f.issued)
                /\ f.issued[i - 1].op \in MergeStatements
                /\ f.issued[i - 1].op = "FirstOrCreate" => f.issued[i - 1].err # ErrNil
            /\ \A i \in Sent(f, {"Create", "Update"}) : f.issued[i - 1].op = "FirstOrCreate"

\* the statements of names, each answered without error
AllNil(names) == [i \in DOMAIN names |-> [op |-> names[i], err |-> ErrNil]]

C20_Witness ==
    /\ BothDone
    /\ frames[1].issued = AllNil(<<"First", "Count", "CountAssignment", "Last",
                                   "FirstOrCreate", "Update", "Updates">>)
    /\ frames[2].issued = [AllNil(<<"First", "Count", "CountAssignment", "Last",
                                    "FirstOrCreate", "Create", "Updates">>)
                            EXCEPT ![4].err = ErrRecordNotFound]
    /\ Cardinality(submissions) = 1

StepInit ==
    /\ assignments = {1} /\ users = {1} /\ groups = {}
    /\ submissions = {}
    /\ reviews = {}
    /\ reviewSeq = 0
    /\ op = "none"
    /\ arg = NoCall
    /\ ret = NoCall
    /\ before = {}
    /\ frames = [p \in Procs |-> IdleFrame]

StepNext ==
    \E p \in Procs :
        \/ Call(p)
        \/ Count(p)
        \/ CountAssignment(p)
        \/ Last(p)
        \/ FirstOrCreateFirst(p)
        \/ FirstOrCreateSecond(p)
        \/ Updates(p)

StepSpec == StepInit /\ [][StepNext]_vars

\* ------------------------------------------------------------------------
\* UpdateSubmissions by two callers at the same time, on a table that holds
\* rows.  The call is one UPDATE statement (lines 502-509), which the store
\* runs as a whole.

\* the queries the two callers pass: no identifier, an assignment, a
\* threshold, a status and a released flag
ConcurrentApprovals == {q \in ApprovalQueries : q.ID = 0 /\ q.AssignmentID \in {1, 2}}

\* lines 501-505: the call is made and its statement built
Approve(p) ==
    /\ frames[p].pc = "idle"
    /\ \E query \in ConcurrentApprovals :
        frames' = [frames EXCEPT ![p] = [IdleFrame EXCEPT !.pc = "Approve", !.s = query]]
    /\ UNCHANGED <<tables, submissions, reviews, reviewSeq, op, arg, ret, before>>

\* lines 506-509: the UPDATE runs and the call returns its error
ApproveUpdates(p) ==
    /\ frames[p].pc = "Approve"
    /\ LET f == frames[p]
           r == UpdateSubmissionsResult(submissions, f.s)
       IN  /\ submissions' = r.db
           /\ frames' = [frames EXCEPT ![p] =
                    Returns([f EXCEPT !.issued = Issue(f, "Updates", r.err)], r.err)]
    /\ UNCHANGED <<tables, reviews, reviewSeq, op, arg, ret, before>>

\* C19: two approvals with the same assignment, threshold, status and
\* released flag, one after the other or overlapping in any way, leave the
\* table as a single one of them leaves the table they started on.
C19_ApproveIdempotent ==
    (BothDone /\ frames[1].s = frames[2].s) =>
        submissions = UpdateSubmissionsResult(before, frames[1].s).db

C19_Witness ==
    /\ BothDone
    /\ frames[1].s = frames[2].s
    /\ frames[1].s.Status = 1 /\ frames[1].s.Released /\ frames[1].s.Score = 7
    /\ \E r \in before : r.AssignmentID = frames[1].s.AssignmentID /\ r.Score = 7
                            /\ r.Status = 2 /\ ~r.Released /\ r \notin submissions
    /\ \E r \in before : r.Score = 0 /\ r \in submissions

ApproveInit ==
    /\ \E f \in Fixtures :
        /\ assignments = f.assignments
        /\ users = f.users
        /\ groups = f.groups
        /\ submissions \in SeededTables(f)
    /\ before = submissions
    /\ reviews = {}
    /\ reviewSeq = 0
    /\ op = "none"
    /\ arg = NoCall
    /\ ret = NoCall
    /\ frames = [p \in Procs |-> IdleFrame]

ApproveNext == \E p \in Procs : Approve(p) \/ ApproveUpdates(p)

ApproveSpec == ApproveInit /\ [][ApproveNext]_vars
====
